---- MODULE Spec2Model ----
(***************************************************************************)
(* Slotted ALOHA simulator (src/slotted_aloha_sim.py): simulate_slots and  *)
(* the Node / Packet classes it drives.                                    *)
(*                                                                         *)
(* One behaviour is one call of simulate_slots.  The configuration is      *)
(* chosen in Init; random.random() < arrival_prob and random.randint are   *)
(* nondeterministic choices over the values the generator can return.      *)
(* arrival_prob is kept in percent (50 stands for 0.5).                    *)
(*                                                                         *)
(* Chunked file transfer (src/aloha.py, src/sender.py, src/reciever.py):   *)
(* the datagram framing of the two ALOHASender classes, the header parse   *)
(* and the reassembly of the two ALOHAReceiver classes.  Strings are       *)
(* sequences of code points, datagrams are sequences of bytes.             *)
(***************************************************************************)
EXTENDS Integers, Sequences, FiniteSets, TLC

\* ---- bounds of the model ----
MaxNodes == 4
MaxSlots == 5
MaxBackoffExp == 2
\* num_nodes * num_slots of a run is at most MaxWork
MaxWork == 9
\* the chunks of all transfers of a run together
MaxWireChunks == 4
\* the chunk_size of the senders
WireChunkSize == 2

\* ---- inputs of simulate_slots the model enumerates ----
NumNodesChoices == -1..MaxNodes
NumSlotsChoices == -1..MaxSlots
ArrivalProbChoices == {-50, 0, 50, 100}
MaxBackoffExpChoices == 0..MaxBackoffExp

VARIABLES
  num_nodes,        \* argument num_nodes
  num_slots,        \* argument num_slots
  arrival_prob,     \* argument arrival_prob, in percent
  max_backoff_exp,  \* argument max_backoff_exp
  nodes,            \* nodes[i] is the deque of Node i, head first
  stats,            \* the stats dict (without 'slots', which is num_slots)
  slot,             \* the loop variable
  transmitters,     \* the transmitters of the slot being processed
  arrivalLog,       \* history: the <<slot, node>> pairs whose arrival trial succeeded
  lastCollision,    \* history: per node, the slot and the drawn backoff of the
                    \* latest collision of the packet at its head, or NoCollision
  summary,          \* the returned summary, or NoSummary
  pc,               \* position in simulate_slots
  frame,            \* one datagram: its inputs, its bytes, the header parsed from it
  receiver,         \* the receiver class in use: "aloha" or "reciever"
  transfers,        \* transfers[t]: the sender class, id, file name, data and chunk size
  sent,             \* sent[t]: the chunks of transfer t sent so far
  network,          \* the datagrams sent so far; each may arrive any number of times
  active_transfers, \* ALOHAReceiver.active_transfers
  rstats,           \* ALOHAReceiver.stats
  files,            \* the files written by reconstruct_file, by output path
  arrived,          \* history: arrived[t] is the set of chunk indices of t processed
  reconstructed     \* history: the key, the stored total and the stored chunk numbers
                    \* of every transfer reconstruct_file was called on

\* the variables of the simulator
sim == <<num_nodes, num_slots, arrival_prob, max_backoff_exp, nodes, stats,
         slot, transmitters, arrivalLog, lastCollision, summary, pc>>

\* the variables of the file transfer
wire == <<frame, receiver, transfers, sent, network, active_transfers, rstats,
          files, arrived, reconstructed>>

vars == <<sim, wire>>

config == <<num_nodes, num_slots, arrival_prob, max_backoff_exp>>

NoSummary == [produced |-> FALSE]

NoCollision == [collided |-> FALSE]

Min(a, b) == IF a < b THEN a ELSE b

RECURSIVE SumSeq(_)
SumSeq(s) == IF s = <<>> THEN 0 ELSE Head(s) + SumSeq(Tail(s))

\* ---- class Packet ----
Packet(created_slot) == [created_slot |-> created_slot, attempts |-> 0, backoff |-> 0]

\* ---- class Node ----
NodeIds == 0..(num_nodes - 1)

\* variant: any held packet counts as ready
HasReady_IgnoreBackoff(queue) == Len(queue) > 0

HasReady(queue) == Len(queue) > 0 /\ queue[1].backoff = 0

\* variant: the new packet is put at the head of the deque
ScheduleNewPacket_Front(queue, s) == <<Packet(s)>> \o queue

\* variant: an arrival is dropped while the node holds a packet
ScheduleNewPacket_NoQueue(queue, s) ==
  IF Len(queue) > 0 THEN queue ELSE Append(queue, Packet(s))

ScheduleNewPacket(queue, s) == Append(queue, Packet(s))

\* variant: the exponent is not capped
Window_Uncapped(attempts, maxexp) == 2 ^ attempts

\* window = 2 ** min(attempts, max_backoff_exp)
Window(attempts, maxexp) == 2 ^ Min(attempts, maxexp)

\* variant: the draw starts at 0
BackoffDraws_FromZero(attempts, maxexp) == 0..(Window(attempts, maxexp) - 1)

\* the values random.randint(1, window - 1) if window > 1 else 0 can take
BackoffDraws(attempts, maxexp) ==
  IF Window(attempts, maxexp) > 1 THEN 1..(Window(attempts, maxexp) - 1) ELSE {0}

\* variant: attempts is counted, the drawn backoff is not stored
OnCollision_NoBackoff(queue, b) ==
  [queue EXCEPT ![1] = [@ EXCEPT !.attempts = @ + 1]]

\* on_collision, with b the value drawn for the backoff
OnCollision(queue, b) ==
  [queue EXCEPT ![1] = [@ EXCEPT !.attempts = @ + 1, !.backoff = b]]

\* variant: a success empties the deque
OnSuccess_Clear(queue) == <<>>

\* variant: the head is read, not removed
OnSuccess_Peek(queue) == queue

\* on_success: the deque after popleft
OnSuccess(queue) == Tail(queue)

\* variant: a tick that leaves every counter as it is
TickBackoff_NoOp(queue) == queue

\* variant: the decrement is not guarded by backoff > 0
TickBackoff_Unguarded(queue) ==
  IF Len(queue) = 0 THEN queue
  ELSE [queue EXCEPT ![1] = [@ EXCEPT !.backoff = @ - 1]]

TickBackoff(queue) ==
  IF Len(queue) = 0 THEN queue
  ELSE IF queue[1].backoff > 0
       THEN [queue EXCEPT ![1] = [@ EXCEPT !.backoff = @ - 1]]
       ELSE queue

\* ---- simulate_slots ----
\* variant: the comparison of the trial is reversed
ArrivalTrial_Reversed(p) == IF p <= 0 THEN {TRUE} ELSE IF p >= 100 THEN {FALSE} ELSE BOOLEAN

\* the outcomes of random.random() < arrival_prob, random.random() in [0, 1)
ArrivalTrial(p) == IF p <= 0 THEN {FALSE} ELSE IF p >= 100 THEN {TRUE} ELSE BOOLEAN

\* the backoff values one collision can draw: one randint call per transmitter
RECURSIVE BackoffAssignments(_, _, _)
BackoffAssignments(ns, T, maxexp) ==
  IF T = {} THEN {<<>>}
  ELSE LET n == CHOOSE x \in T : TRUE
           rest == BackoffAssignments(ns, T \ {n}, maxexp)
       IN  {[m \in T |-> IF m = n THEN b ELSE f[m]] :
              b \in BackoffDraws(ns[n][1].attempts + 1, maxexp), f \in rest}

Transmitters(ns) == {n \in DOMAIN ns : HasReady(ns[n])}

\* variant: the delay is not inclusive of the creation slot
Delay_Exclusive(s, pkt) == s - pkt.created_slot

\* delay = slot - pkt.created_slot + 1
Delay(s, pkt) == s - pkt.created_slot + 1

\* no file transfer takes place
WireIdle ==
  /\ frame = [stage |-> "idle"]
  /\ receiver = "aloha"
  /\ transfers = <<>>
  /\ sent = <<>>
  /\ network = {}
  /\ active_transfers = <<>>
  /\ rstats = [received |-> 0, collisions |-> 0, completed |-> 0]
  /\ files = <<>>
  /\ arrived = <<>>
  /\ reconstructed = {}

Init ==
  /\ WireIdle
  /\ num_nodes \in NumNodesChoices
  /\ num_slots \in NumSlotsChoices
  /\ num_nodes * num_slots <= MaxWork
  /\ arrival_prob \in ArrivalProbChoices
  /\ max_backoff_exp \in MaxBackoffExpChoices
  /\ nodes = <<>>
  /\ stats = [successes |-> 0, collisions |-> 0, empty |-> 0, delays |-> <<>>]
  /\ slot = 0
  /\ transmitters = {}
  /\ arrivalLog = {}
  /\ lastCollision = <<>>
  /\ summary = NoSummary
  /\ pc = "start"

\* lines 72-82: build the nodes and the stats, enter the loop
Begin ==
  /\ pc = "start"
  /\ nodes' = [n \in NodeIds |-> <<>>]
  /\ stats' = [successes |-> 0, collisions |-> 0, empty |-> 0, delays |-> <<>>]
  /\ IF num_slots >= 1
     THEN slot' = 1 /\ pc' = "arrivals"
     ELSE slot' = slot /\ pc' = "summary"
  /\ lastCollision' = [n \in NodeIds |-> NoCollision]
  /\ UNCHANGED <<config, transmitters, arrivalLog, summary>>
  /\ UNCHANGED wire

\* lines 84-86: one arrival trial per node
Arrivals ==
  /\ pc = "arrivals"
  /\ \E arr \in [DOMAIN nodes -> BOOLEAN] :
       /\ \A n \in DOMAIN nodes : arr[n] \in ArrivalTrial(arrival_prob)
       /\ nodes' = [n \in DOMAIN nodes |->
                      IF arr[n] THEN ScheduleNewPacket(nodes[n], slot) ELSE nodes[n]]
       /\ arrivalLog' = arrivalLog \cup {<<slot, n>> : n \in {m \in DOMAIN nodes : arr[m]}}
  /\ pc' = "resolve"
  /\ UNCHANGED <<config, stats, slot, transmitters, lastCollision, summary>>
  /\ UNCHANGED wire

\* variant: an empty slot is not counted
ResolveEmpty_Uncounted ==
  /\ pc = "resolve"
  /\ Cardinality(Transmitters(nodes)) = 0
  /\ transmitters' = Transmitters(nodes)
  /\ pc' = "tick"
  /\ UNCHANGED <<config, nodes, stats, slot, arrivalLog, lastCollision, summary>>
  /\ UNCHANGED wire

\* lines 89-94: no transmitter
ResolveEmpty ==
  /\ pc = "resolve"
  /\ Cardinality(Transmitters(nodes)) = 0
  /\ transmitters' = Transmitters(nodes)
  /\ stats' = [stats EXCEPT !.empty = @ + 1]
  /\ pc' = "tick"
  /\ UNCHANGED <<config, nodes, slot, arrivalLog, lastCollision, summary>>
  /\ UNCHANGED wire

\* lines 89, 95-103: one transmitter
ResolveSuccess ==
  /\ pc = "resolve"
  /\ Cardinality(Transmitters(nodes)) = 1
  /\ transmitters' = Transmitters(nodes)
  /\ \E n \in Transmitters(nodes) :
       /\ nodes' = [nodes EXCEPT ![n] = OnSuccess(@)]
       /\ stats' = [stats EXCEPT !.successes = @ + 1,
                                 !.delays = Append(@, Delay(slot, nodes[n][1]))]
       /\ lastCollision' = [lastCollision EXCEPT ![n] = NoCollision]
  /\ pc' = "tick"
  /\ UNCHANGED <<config, slot, arrivalLog, summary>>
  /\ UNCHANGED wire

\* lines 89, 104-111: two or more transmitters
ResolveCollision ==
  /\ pc = "resolve"
  /\ Cardinality(Transmitters(nodes)) >= 2
  /\ transmitters' = Transmitters(nodes)
  /\ stats' = [stats EXCEPT !.collisions = @ + 1]
  /\ \E draw \in BackoffAssignments(nodes, Transmitters(nodes), max_backoff_exp) :
       /\ nodes' = [n \in DOMAIN nodes |->
                 IF n \in Transmitters(nodes)
                 THEN OnCollision(nodes[n], draw[n]) ELSE nodes[n]]
       /\ lastCollision' = [n \in DOMAIN nodes |->
                 IF n \in Transmitters(nodes)
                 THEN [collided |-> TRUE, slot |-> slot, backoff |-> draw[n]]
                 ELSE lastCollision[n]]
  /\ pc' = "tick"
  /\ UNCHANGED <<config, slot, arrivalLog, summary>>
  /\ UNCHANGED wire

\* variant: the transmitters of the slot are not ticked
Tick_SkipTransmitters ==
  /\ pc = "tick"
  /\ nodes' = [n \in DOMAIN nodes |->
                 IF n \in transmitters THEN nodes[n] ELSE TickBackoff(nodes[n])]
  /\ IF slot < num_slots
     THEN slot' = slot + 1 /\ pc' = "arrivals"
     ELSE slot' = slot /\ pc' = "summary"
  /\ UNCHANGED <<config, stats, transmitters, arrivalLog, lastCollision, summary>>
  /\ UNCHANGED wire

\* lines 114-115 and the loop header of line 82
Tick ==
  /\ pc = "tick"
  /\ nodes' = [n \in DOMAIN nodes |-> TickBackoff(nodes[n])]
  /\ IF slot < num_slots
     THEN slot' = slot + 1 /\ pc' = "arrivals"
     ELSE slot' = slot /\ pc' = "summary"
  /\ UNCHANGED <<config, stats, transmitters, arrivalLog, lastCollision, summary>>
  /\ UNCHANGED wire

\* variant: the collision rate is divided without the check of line 119
Summarise_Unguarded ==
  /\ pc = "summary"
  /\ num_slots # 0
  /\ IF num_slots - stats.empty = 0
     THEN pc' = "ZeroDivisionError" /\ summary' = summary
     ELSE /\ pc' = "done"
          /\ summary' = [produced |-> TRUE,
                         slots |-> num_slots,
                         successes |-> stats.successes,
                         collisions |-> stats.collisions,
                         empty_slots |-> stats.empty,
                         throughput_per_slot |-> <<stats.successes, num_slots>>,
                         collision_rate_given_activity |->
                           <<stats.collisions, num_slots - stats.empty>>,
                         avg_delay_slots |->
                           IF stats.delays # <<>>
                           THEN <<SumSeq(stats.delays), Len(stats.delays)>>
                           ELSE <<"nan">>]
  /\ UNCHANGED <<config, nodes, stats, slot, transmitters, arrivalLog, lastCollision>>
  /\ UNCHANGED wire

\* lines 118-132: the summary; fractions are <<numerator, denominator>>
Summarise ==
  /\ pc = "summary"
  /\ num_slots # 0
  /\ summary' = [produced |-> TRUE,
                 slots |-> num_slots,
                 successes |-> stats.successes,
                 collisions |-> stats.collisions,
                 empty_slots |-> stats.empty,
                 throughput_per_slot |-> <<stats.successes, num_slots>>,
                 collision_rate_given_activity |->
                   IF num_slots - stats.empty > 0
                   THEN <<stats.collisions, num_slots - stats.empty>>
                   ELSE <<0, 1>>,
                 avg_delay_slots |->
                   IF stats.delays # <<>>
                   THEN <<SumSeq(stats.delays), Len(stats.delays)>>
                   ELSE <<"nan">>]
  /\ pc' = "done"
  /\ UNCHANGED <<config, nodes, stats, slot, transmitters, arrivalLog, lastCollision>>
  /\ UNCHANGED wire

\* line 118 with num_slots = 0: ZeroDivisionError, nothing is returned
SummaryFault ==
  /\ pc = "summary"
  /\ num_slots = 0
  /\ pc' = "ZeroDivisionError"
  /\ UNCHANGED <<config, nodes, stats, slot, transmitters, arrivalLog, lastCollision, summary>>
  /\ UNCHANGED wire

Next ==
  \/ Begin
  \/ Arrivals
  \/ ResolveEmpty
  \/ ResolveSuccess
  \/ ResolveCollision
  \/ Tick
  \/ Summarise
  \/ SummaryFault

Spec == Init /\ [][Next]_vars

(***************************************************************************)
(* File transfer: bytes and strings                                        *)
(***************************************************************************)

\* n.to_bytes(w, 'big')
ToBytes(n, w) == [i \in 1..w |-> (n \div (256 ^ (w - i))) % 256]

\* An int read from the wire can exceed the integers of the model checker:
\* it is kept as <<v \div 65536, v % 65536>>.
Wide(v) == <<v \div 65536, v % 65536>>

\* a < b for two such ints
WideLess(a, b) == a[1] < b[1] \/ (a[1] = b[1] /\ a[2] < b[2])

\* the value of at most two bytes, big-endian
RECURSIVE SmallFromBytes(_)
SmallFromBytes(bs) ==
  IF bs = <<>> THEN 0
  ELSE SmallFromBytes(SubSeq(bs, 1, Len(bs) - 1)) * 256 + bs[Len(bs)]

\* int.from_bytes(bs, "big") of at most four bytes
FromBytes(bs) ==
  IF Len(bs) <= 2 THEN <<0, SmallFromBytes(bs)>>
  ELSE <<SmallFromBytes(SubSeq(bs, 1, Len(bs) - 2)),
         SmallFromBytes(SubSeq(bs, Len(bs) - 1, Len(bs)))>>

\* data[a:b], 0 <= a <= b
Slice(data, a, b) == SubSeq(data, a + 1, Min(b, Len(data)))

\* str.encode(): UTF-8 of code points below 2048
RECURSIVE Utf8Encode(_)
Utf8Encode(str) ==
  IF str = <<>> THEN <<>>
  ELSE (IF str[1] < 128
        THEN <<str[1]>>
        ELSE <<192 + (str[1] \div 64), 128 + (str[1] % 64)>>) \o Utf8Encode(Tail(str))

\* bytes.decode(): text is the result with errors='ignore', ok says whether
\* the strict decode succeeds.  Lead bytes of three and four byte sequences
\* (224..244) do not occur in the datagrams of the model.
RECURSIVE Utf8Decode(_)
Utf8Decode(bs) ==
  IF bs = <<>> THEN [ok |-> TRUE, text |-> <<>>]
  ELSE IF bs[1] < 128
       THEN LET r == Utf8Decode(Tail(bs))
            IN  [ok |-> r.ok, text |-> <<bs[1]>> \o r.text]
       ELSE IF bs[1] \in 194..223 /\ Len(bs) >= 2 /\ bs[2] \in 128..191
            THEN LET r == Utf8Decode(Tail(Tail(bs)))
                 IN  [ok |-> r.ok, text |-> <<(bs[1] - 192) * 64 + (bs[2] - 128)>> \o r.text]
            ELSE LET r == Utf8Decode(Tail(bs))
                 IN  [ok |-> FALSE, text |-> r.text]

\* str.zfill(width): zeros on the left, after a leading sign
Zfill(str, width) ==
  IF Len(str) >= width THEN str
  ELSE LET zeros == [i \in 1..(width - Len(str)) |-> 48]
       IN  IF Len(str) > 0 /\ str[1] \in {43, 45}
           THEN <<str[1]>> \o zeros \o Tail(str)
           ELSE zeros \o str

(***************************************************************************)
(* File transfer: the senders                                              *)
(***************************************************************************)

\* aloha.py, ALOHASender.__init__: the id as bytes, padded with '_' or cut to 4 bytes
AlohaSenderId(sender_id) ==
  LET sid == Utf8Encode(sender_id)
  IN  IF Len(sid) < 4 THEN sid \o [i \in 1..(4 - Len(sid)) |-> 95]
      ELSE IF Len(sid) > 4 THEN SubSeq(sid, 1, 4)
      ELSE sid

\* sender.py, ALOHASender: sender_id.zfill(4)[:4], encoded when the header is built
SenderPySenderId(sender_id) == Utf8Encode(SubSeq(Zfill(sender_id, 4), 1, 4))

\* the bytes the sender class impl puts in front of the header
SenderIdBytes(impl, sender_id) ==
  IF impl = "aloha" THEN AlohaSenderId(sender_id) ELSE SenderPySenderId(sender_id)

\* the datagram of chunk i: header fields, file name, payload
BuildPacket(sid, i, total, fname, chunk) ==
  sid \o ToBytes(i, 4) \o ToBytes(total, 4)
      \o ToBytes(Len(Utf8Encode(fname)), 2) \o Utf8Encode(fname) \o chunk

(***************************************************************************)
(* File transfer: the receivers                                            *)
(***************************************************************************)

\* the header parse of process_packet; reciever.py decodes strictly and
\* raises on bytes that are not UTF-8, aloha.py ignores them
ParseHeader(data, strict) ==
  LET sd == Utf8Decode(Slice(data, 0, 4))
      filename_len == FromBytes(Slice(data, 12, 14))[2]
      fd == Utf8Decode(Slice(data, 14, 14 + filename_len))
  IN  IF strict /\ (~sd.ok \/ ~fd.ok)
      THEN [ok |-> FALSE]
      ELSE [ok |-> TRUE,
            sender_id |-> sd.text,
            chunk_no |-> FromBytes(Slice(data, 4, 8)),
            total_chunks |-> FromBytes(Slice(data, 8, 12)),
            filename |-> fd.text,
            payload |-> Slice(data, 14 + filename_len, Len(data))]

\* the simulator is not running
SimIdle ==
  /\ num_nodes = 0 /\ num_slots = 0 /\ arrival_prob = 0 /\ max_backoff_exp = 0
  /\ nodes = <<>>
  /\ stats = [successes |-> 0, collisions |-> 0, empty |-> 0, delays |-> <<>>]
  /\ slot = 0
  /\ transmitters = {}
  /\ arrivalLog = {}
  /\ lastCollision = <<>>
  /\ summary = NoSummary
  /\ pc = "start"

(***************************************************************************)
(* One datagram from sender to receiver                                    *)
(***************************************************************************)

\* sender ids: "A", "SNDR", "LONGER", "-7", "e-acute", "aaa" + "e-acute"
FrameSenderIds ==
  {<<65>>, <<83, 78, 68, 82>>, <<76, 79, 78, 71, 69, 82>>, <<45, 55>>,
   <<233>>, <<97, 97, 97, 233>>}

\* <<chunk index, total chunk count>>
FrameChunkNumbers == {<<0, 1>>, <<1, 3>>, <<255, 256>>, <<256, 70000>>}

\* file names: "f", "e-acute" + ".b"
FrameFilenames == {<<102>>, <<233, 46, 98>>}

FramePayloads == {<<7>>, <<1, 2, 3>>}

InitFrame ==
  /\ SimIdle
  /\ receiver = "aloha"
  /\ transfers = <<>>
  /\ sent = <<>>
  /\ network = {}
  /\ active_transfers = <<>>
  /\ rstats = [received |-> 0, collisions |-> 0, completed |-> 0]
  /\ files = <<>>
  /\ arrived = <<>>
  /\ reconstructed = {}
  /\ \E impl \in {"aloha", "sender"}, id \in FrameSenderIds, ck \in FrameChunkNumbers,
        fname \in FrameFilenames, chunk \in FramePayloads :
       frame = [stage |-> "input", impl |-> impl, sender_id |-> id,
                chunk_no |-> ck[1], total |-> ck[2], filename |-> fname,
                payload |-> chunk, datagram |-> <<>>, parsed_by |-> "none",
                header |-> [ok |-> FALSE]]

\* aloha.py lines 190-197, sender.py lines 41-50
FrameBuild ==
  /\ frame.stage = "input"
  /\ frame' = [frame EXCEPT
                 !.stage = "built",
                 !.datagram = BuildPacket(SenderIdBytes(frame.impl, frame.sender_id),
                                          frame.chunk_no, frame.total,
                                          frame.filename, frame.payload)]
  /\ UNCHANGED <<sim, receiver, transfers, sent, network, active_transfers, rstats,
                 files, arrived, reconstructed>>

\* aloha.py lines 99-104
FrameParseAloha ==
  /\ frame.stage = "built"
  /\ frame' = [frame EXCEPT !.stage = "parsed", !.parsed_by = "aloha",
                            !.header = ParseHeader(frame.datagram, FALSE)]
  /\ UNCHANGED <<sim, receiver, transfers, sent, network, active_transfers, rstats,
                 files, arrived, reconstructed>>

\* reciever.py lines 35-40
FrameParseReciever ==
  /\ frame.stage = "built"
  /\ frame' = [frame EXCEPT !.stage = "parsed", !.parsed_by = "reciever",
                            !.header = ParseHeader(frame.datagram, TRUE)]
  /\ UNCHANGED <<sim, receiver, transfers, sent, network, active_transfers, rstats,
                 files, arrived, reconstructed>>

NextFrame ==
  \/ FrameBuild
  \/ FrameParseAloha
  \/ FrameParseReciever

SpecFrame == InitFrame /\ [][NextFrame]_vars

(***************************************************************************)
(* Transfers: senders, datagrams in flight, reassembly                     *)
(***************************************************************************)

\* the sender class, sender id and file name of the transfers the model
\* draws from: "A" and "SNDR", files "f" and "e-acute" + ".b"
WireSources ==
  << [impl |-> "aloha",  sender_id |-> <<65>>, filename |-> <<102>>],
     [impl |-> "sender", sender_id |-> <<65>>, filename |-> <<102>>],
     [impl |-> "aloha",  sender_id |-> <<65>>, filename |-> <<233, 46, 98>>],
     [impl |-> "sender", sender_id |-> <<83, 78, 68, 82>>, filename |-> <<102>>] >>

\* the content of a file of k chunks, the last one short; the bytes tell
\* the files and the positions apart
WireData(src, k) == [i \in 1..(k * WireChunkSize - 1) |-> 16 * src + i]

\* a receiver processes at most this many datagrams
MaxReceived == MaxWireChunks + 1

\* chunks = [data[i:i+chunk_size] for i in range(0, len(data), chunk_size)]
NumChunks(data, chunk_size) == (Len(data) + chunk_size - 1) \div chunk_size

Chunk(data, chunk_size, i) == Slice(data, i * chunk_size, i * chunk_size + chunk_size)

\* the datagram of chunk i of transfer tr
Datagram(tr, i) ==
  BuildPacket(SenderIdBytes(tr.impl, tr.sender_id), i,
              NumChunks(tr.data, tr.chunk_size), tr.filename,
              Chunk(tr.data, tr.chunk_size, i))

RECURSIVE TotalChunks(_)
TotalChunks(trs) ==
  IF trs = <<>> THEN 0
  ELSE NumChunks(trs[1].data, trs[1].chunk_size) + TotalChunks(Tail(trs))

\* the runs of transfers the model draws from: one transfer per source, of
\* one or more chunks
WireTransferLists ==
  LET Pick == [DOMAIN WireSources -> 0..MaxWireChunks]
      ListOf(f) ==
        LET RECURSIVE Build(_)
            Build(i) ==
              IF i > Len(WireSources) THEN <<>>
              ELSE (IF f[i] = 0 THEN <<>>
                    ELSE << [impl |-> WireSources[i].impl,
                             sender_id |-> WireSources[i].sender_id,
                             filename |-> WireSources[i].filename,
                             data |-> WireData(i, f[i]),
                             chunk_size |-> WireChunkSize] >>) \o Build(i + 1)
        IN  Build(1)
  IN  {trs \in {ListOf(f) : f \in Pick} : trs # <<>> /\ TotalChunks(trs) <= MaxWireChunks}

InitWire ==
  /\ SimIdle
  /\ frame = [stage |-> "idle"]
  /\ receiver \in {"aloha", "reciever"}
  /\ transfers \in WireTransferLists
  /\ sent = [t \in DOMAIN transfers |-> 0]
  /\ network = {}
  /\ active_transfers = <<>>
  /\ rstats = [received |-> 0, collisions |-> 0, completed |-> 0]
  /\ files = <<>>
  /\ arrived = [t \in DOMAIN transfers |-> {}]
  /\ reconstructed = {}

\* one iteration of the send loop of transfer t
SendChunk(t) ==
  /\ sent[t] < NumChunks(transfers[t].data, transfers[t].chunk_size)
  /\ network' = network \cup {[src |-> t, idx |-> sent[t],
                               data |-> Datagram(transfers[t], sent[t])]}
  /\ sent' = [sent EXCEPT ![t] = @ + 1]
  /\ UNCHANGED <<sim, frame, receiver, transfers, active_transfers, rstats, files, arrived,
                 reconstructed>>

\* aloha.py lines 188-200
SendChunkAloha ==
  \E t \in DOMAIN transfers : transfers[t].impl = "aloha" /\ SendChunk(t)

\* sender.py lines 35-60
SendChunkSenderPy ==
  \E t \in DOMAIN transfers : transfers[t].impl = "sender" /\ SendChunk(t)

\* variant: the transfers of one sender share a key
TransferKey_SenderOnly(sender_id, filename) == sender_id

\* transfer_key = f"{sender_id}_{filename}"
TransferKey(sender_id, filename) == sender_id \o <<95>> \o filename

\* output_path, inside the receiver's directory: f"from_{sender}_{filename}"
OutputPath(sender, filename) ==
  <<102, 114, 111, 109, 95>> \o sender \o <<95>> \o filename

\* the dict d with d[k] = v
DictPut(d, k, v) == [x \in DOMAIN d \cup {k} |-> IF x = k THEN v ELSE d[x]]

\* the dict d after del d[k]
DictDel(d, k) == [x \in DOMAIN d \ {k} |-> d[x]]

\* what reconstruct_file writes: chunks[i] for i in range(total) if i in
\* chunks, that is the stored chunks below total in increasing index order
RECURSIVE ConcatChunks(_, _)
ConcatChunks(chunks, keys) ==
  IF keys = {} THEN <<>>
  ELSE LET k == CHOOSE x \in keys : \A y \in keys : x = y \/ WideLess(x, y)
       IN  chunks[k] \o ConcatChunks(chunks, keys \ {k})

ReconstructContent(transfer) ==
  ConcatChunks(transfer.chunks,
               {i \in DOMAIN transfer.chunks : WideLess(i, transfer.total)})

\* active_transfers after lines 109-120: the transfer is created on its
\* first datagram and the payload is stored under the chunk number
StoreChunk(at, h) ==
  LET key == TransferKey(h.sender_id, h.filename)
      known == IF key \in DOMAIN at
               THEN at
               ELSE DictPut(at, key,
                            [chunks |-> <<>>, total |-> h.total_chunks,
                             filename |-> h.filename, sender |-> h.sender_id])
  IN  [known EXCEPT ![key].chunks = DictPut(@, h.chunk_no, h.payload)]

\* process_packet on the datagram d, reconstruct_file included
ProcessPacket(d, strict) ==
  \E h \in {ParseHeader(d.data, strict)} :
    IF ~h.ok
    THEN /\ rstats' = [rstats EXCEPT !.collisions = @ + 1]
         /\ UNCHANGED <<active_transfers, files, arrived, reconstructed>>
    ELSE \E key \in {TransferKey(h.sender_id, h.filename)},
            stored \in {StoreChunk(active_transfers, h)} :
           /\ arrived' = [arrived EXCEPT ![d.src] = @ \cup {d.idx}]
           /\ IF Wide(Cardinality(DOMAIN stored[key].chunks)) = h.total_chunks
              THEN /\ files' = DictPut(files,
                                       OutputPath(stored[key].sender, stored[key].filename),
                                       ReconstructContent(stored[key]))
                   /\ rstats' = [rstats EXCEPT !.received = @ + 1, !.completed = @ + 1]
                   /\ active_transfers' = DictDel(stored, key)
                   /\ reconstructed' = reconstructed \cup
                        {[key |-> key, total |-> stored[key].total,
                          chunks |-> DOMAIN stored[key].chunks]}
              ELSE /\ files' = files
                   /\ reconstructed' = reconstructed
                   /\ rstats' = [rstats EXCEPT !.received = @ + 1]
                   /\ active_transfers' = stored

\* aloha.py: one datagram taken from the socket and processed
ReceiveAloha ==
  /\ receiver = "aloha"
  /\ rstats.received + rstats.collisions < MaxReceived
  /\ \E d \in network : ProcessPacket(d, FALSE)
  /\ UNCHANGED <<sim, frame, receiver, transfers, sent, network>>

\* reciever.py: one datagram taken from the socket and processed
ReceiveReciever ==
  /\ receiver = "reciever"
  /\ rstats.received + rstats.collisions < MaxReceived
  /\ \E d \in network : ProcessPacket(d, TRUE)
  /\ UNCHANGED <<sim, frame, receiver, transfers, sent, network>>

NextWire ==
  \/ SendChunkAloha
  \/ SendChunkSenderPy
  \/ ReceiveAloha
  \/ ReceiveReciever

SpecWire == InitWire /\ [][NextWire]_vars

(***************************************************************************)
(* The receiver on an open UDP port: datagrams from any host               *)
(***************************************************************************)

\* chunk numbers and totals of the datagrams from other hosts are 0..MaxForged
MaxForged == 2

\* a receiver on the open port processes at most this many datagrams
MaxForgedReceived == 4

\* the host the datagrams claim to come from: sender "SNDR", file "f"
ForgedSource ==
  [impl |-> "other", sender_id |-> <<83, 78, 68, 82>>, filename |-> <<102>>,
   data |-> <<>>, chunk_size |-> WireChunkSize]

\* what recvfrom can return: any header the wire format allows, whether a
\* sender of this repository would build it or not; the payload tells the
\* chunk numbers apart
ForgedDatagrams ==
  {[src |-> 1, idx |-> i,
    data |-> BuildPacket(ForgedSource.sender_id, i, total, ForgedSource.filename,
                         <<i + 1>>)] : i \in 0..MaxForged, total \in 0..MaxForged}

InitForged ==
  /\ SimIdle
  /\ frame = [stage |-> "idle"]
  /\ receiver \in {"aloha", "reciever"}
  /\ transfers = <<ForgedSource>>
  /\ sent = <<0>>
  /\ network = {}
  /\ active_transfers = <<>>
  /\ rstats = [received |-> 0, collisions |-> 0, completed |-> 0]
  /\ files = <<>>
  /\ arrived = <<{}>>
  /\ reconstructed = {}

\* aloha.py: recvfrom returns a datagram of any host, process_packet runs on it
ReceiveAnyAloha ==
  /\ receiver = "aloha"
  /\ rstats.received + rstats.collisions < MaxForgedReceived
  /\ \E d \in ForgedDatagrams : ProcessPacket(d, FALSE)
  /\ UNCHANGED <<sim, frame, receiver, transfers, sent, network>>

\* reciever.py: recvfrom returns a datagram of any host, process_packet runs on it
ReceiveAnyReciever ==
  /\ receiver = "reciever"
  /\ rstats.received + rstats.collisions < MaxForgedReceived
  /\ \E d \in ForgedDatagrams : ProcessPacket(d, TRUE)
  /\ UNCHANGED <<sim, frame, receiver, transfers, sent, network>>

NextForged ==
  \/ ReceiveAnyAloha
  \/ ReceiveAnyReciever

SpecForged == InitForged /\ [][NextForged]_vars

(***************************************************************************)
(* Properties                                                              *)
(***************************************************************************)

\* node n holds a packet whose backoff is 0
ReadyNode(n) == Len(nodes[n]) > 0 /\ nodes[n][1].backoff = 0

ReadyNodes == {n \in DOMAIN nodes : ReadyNode(n)}

\* the slots processed completely so far
SlotsProcessed ==
  CASE pc = "start" -> 0
    [] pc \in {"arrivals", "resolve", "tick"} -> slot - 1
    [] OTHER -> slot

C2_SlotClassification ==
  [][pc = "resolve" =>
       LET k == Cardinality(ReadyNodes) IN
       /\ k = 0 =>
            /\ stats' = [stats EXCEPT !.empty = @ + 1]
            /\ nodes' = nodes
       /\ k = 1 =>
            /\ stats'.successes = stats.successes + 1
            /\ stats'.collisions = stats.collisions
            /\ stats'.empty = stats.empty
            /\ \A n \in DOMAIN nodes :
                 nodes'[n] = IF ReadyNode(n) THEN Tail(nodes[n]) ELSE nodes[n]
       /\ k >= 2 =>
            /\ stats' = [stats EXCEPT !.collisions = @ + 1]
            /\ \A n \in DOMAIN nodes :
                 IF ReadyNode(n)
                 THEN /\ Len(nodes'[n]) = Len(nodes[n])
                      /\ nodes'[n][1].created_slot = nodes[n][1].created_slot
                      /\ nodes'[n][1].attempts = nodes[n][1].attempts + 1
                      /\ Tail(nodes'[n]) = Tail(nodes[n])
                 ELSE nodes'[n] = nodes[n]]_vars

\* a run in which all three kinds of slot occurred, one collision of three nodes
C2_Witness ==
  /\ stats.empty >= 1
  /\ stats.successes >= 1
  /\ stats.collisions >= 1
  /\ pc = "tick"
  /\ Cardinality(transmitters) >= 3
  /\ \A n \in transmitters : nodes[n][1].attempts >= 1

\* C3: after t processed slots empty + successes + collisions = t, and a
\* slot with exactly one ready node counts a success and no collision.
C3_SlotAccounting ==
  /\ [](pc # "tick" =>
          stats.empty + stats.successes + stats.collisions = SlotsProcessed)
  /\ [](pc = "tick" =>
          stats.empty + stats.successes + stats.collisions = slot)
  /\ [][pc = "resolve" /\ Cardinality(ReadyNodes) = 1 =>
          /\ stats'.successes = stats.successes + 1
          /\ stats'.collisions = stats.collisions]_vars

\* a finished run of at least three slots, each kind counted
C3_Witness ==
  /\ pc = "done"
  /\ num_slots >= 3
  /\ stats.empty >= 1 /\ stats.successes >= 1 /\ stats.collisions >= 1
  /\ stats.empty + stats.successes + stats.collisions = num_slots

\* the scenario of C4: two nodes, max_backoff_exp = 1, both arrival trials
\* succeeded in slot 1 and no trial succeeded since
C4_Scenario ==
  /\ num_nodes = 2
  /\ max_backoff_exp = 1
  /\ arrivalLog = {<<1, 0>>, <<1, 1>>}

\* C4: in that scenario every slot is a collision: after the collision both
\* nodes hold backoff 1, the tick of the same slot brings both to 0, both are
\* ready in the next slot and collide again; no packet ever succeeds.
C4_StuckCollisionLoop ==
  C4_Scenario =>
    /\ stats.successes = 0 /\ stats.empty = 0 /\ stats.delays = <<>>
    /\ \A n \in DOMAIN nodes : Len(nodes[n]) = 1 /\ nodes[n][1].created_slot = 1
    /\ pc = "resolve" =>
         /\ stats.collisions = slot - 1
         /\ \A n \in DOMAIN nodes : ReadyNode(n) /\ nodes[n][1].attempts = slot - 1
    /\ pc = "tick" =>
         /\ stats.collisions = slot
         /\ transmitters = {0, 1}
         /\ \A n \in DOMAIN nodes : nodes[n][1].backoff = 1 /\ nodes[n][1].attempts = slot
    /\ pc \in {"arrivals", "summary", "done"} =>
         /\ stats.collisions = SlotsProcessed
         /\ \A n \in DOMAIN nodes : ReadyNode(n) /\ nodes[n][1].attempts = SlotsProcessed
    /\ pc = "done" => summary.collisions = num_slots /\ summary.successes = 0

\* the loop has run for three slots
C4_Witness ==
  /\ C4_Scenario
  /\ pc = "done"
  /\ num_slots >= 3
  /\ stats.collisions = num_slots

\* C5: no packet's backoff exceeds 2^max_backoff_exp - 1, and the values a
\* collision can draw once attempts has reached max_backoff_exp are the
\* values it can draw at attempts = max_backoff_exp.
C5_BackoffCapped ==
  /\ \A n \in DOMAIN nodes : \A i \in 1..Len(nodes[n]) :
       nodes[n][i].backoff <= 2 ^ max_backoff_exp - 1
  /\ \A a \in max_backoff_exp..(max_backoff_exp + MaxSlots) :
       BackoffDraws(a, max_backoff_exp) = BackoffDraws(max_backoff_exp, max_backoff_exp)
  /\ pc = "tick" /\ Cardinality(transmitters) >= 2 =>
       \A n \in transmitters :
         nodes[n][1].attempts >= max_backoff_exp =>
           nodes[n][1].backoff \in
             (IF max_backoff_exp = 0 THEN {0} ELSE 1..(2 ^ max_backoff_exp - 1))

\* a packet that collided more often than the cap was assigned the largest value
C5_Witness ==
  /\ pc = "tick"
  /\ Cardinality(transmitters) >= 2
  /\ max_backoff_exp >= 1
  /\ \E n \in transmitters :
       /\ nodes[n][1].attempts > max_backoff_exp
       /\ nodes[n][1].backoff = 2 ^ max_backoff_exp - 1

\* C6 (as claimed): the tick of the slot in which a node collided leaves the
\* backoff just assigned to it unchanged.
C6_NoSameSlotDecrement ==
  [][pc = "tick" /\ Cardinality(transmitters) >= 2 =>
       \A n \in transmitters : nodes'[n][1].backoff = nodes[n][1].backoff]_vars

\* C6 (amended): the tick of the slot in which a node collided decrements the
\* backoff just assigned to it: at the start of the next slot the node holds
\* the drawn value minus 1, and 0 when the drawn value is 0.
C6_SameSlotDecrement ==
  [][pc = "tick" /\ Cardinality(transmitters) >= 2 =>
       \A n \in transmitters :
         /\ nodes[n][1].backoff >= 1 => nodes'[n][1].backoff = nodes[n][1].backoff - 1
         /\ nodes[n][1].backoff = 0 => nodes'[n][1].backoff = 0
         /\ nodes'[n][1].attempts = nodes[n][1].attempts
         /\ Len(nodes'[n]) = Len(nodes[n])]_vars

\* a node drew 3 at its second collision and starts the next slot with 2
C6_Witness ==
  /\ pc = "arrivals"
  /\ Cardinality(transmitters) >= 2
  /\ \E n \in transmitters :
       nodes[n][1].attempts = 2 /\ nodes[n][1].backoff = 2

\* C7: the end-of-slot tick decrements by exactly 1 the backoff of every held
\* packet whose backoff is > 0 and changes nothing else; no backoff is ever
\* negative.
C7_TickDecrements ==
  /\ [](\A n \in DOMAIN nodes : \A i \in 1..Len(nodes[n]) : nodes[n][i].backoff >= 0)
  /\ [][pc = "tick" =>
          \A n \in DOMAIN nodes :
            /\ Len(nodes'[n]) = Len(nodes[n])
            /\ \A i \in 1..Len(nodes[n]) :
                 nodes'[n][i] =
                   IF nodes[n][i].backoff > 0
                   THEN [nodes[n][i] EXCEPT !.backoff = @ - 1]
                   ELSE nodes[n][i]]_vars
  /\ [][pc # "tick" /\ pc # "resolve" =>
          \A n \in DOMAIN nodes : \A i \in 1..Len(nodes[n]) :
            i \in 1..Len(nodes'[n]) => nodes'[n][i].backoff = nodes[n][i].backoff]_vars

\* after a tick: one node still backing off, one idle, one ready
C7_Witness ==
  /\ pc = "arrivals"
  /\ \E n, m, r \in DOMAIN nodes :
       /\ Len(nodes[n]) > 0 /\ nodes[n][1].backoff = 1 /\ nodes[n][1].attempts >= 2
       /\ nodes[m] = <<>>
       /\ ReadyNode(r)

\* C8: every recorded delay is >= 1, every held packet was created in a slot
\* <= the current one, and a packet that succeeds in the slot of its creation
\* records delay 1.
C8_DelayFloor ==
  /\ [](\A i \in 1..Len(stats.delays) : stats.delays[i] >= 1)
  /\ [](\A n \in DOMAIN nodes : \A i \in 1..Len(nodes[n]) :
          nodes[n][i].created_slot >= 1 /\ nodes[n][i].created_slot <= slot)
  /\ [][pc = "resolve" /\ Cardinality(ReadyNodes) = 1 =>
          \A n \in ReadyNodes :
            /\ Len(stats'.delays) = Len(stats.delays) + 1
            /\ stats'.delays[Len(stats'.delays)] = slot - nodes[n][1].created_slot + 1
            /\ nodes[n][1].created_slot = slot => stats'.delays[Len(stats'.delays)] = 1]_vars

\* one packet succeeded in its own slot, another one later
C8_Witness ==
  \E i, j \in 1..Len(stats.delays) : stats.delays[i] = 1 /\ stats.delays[j] >= 2

\* C9: one node whose arrival trial always succeeds: every slot is a success
\* with delay 1, the node holds no packet at the end of a slot, and the
\* summary of S slots has successes = S, collisions = 0, empty_slots = 0 and
\* mean delay 1.
C9_SingleNodeAlwaysArriving ==
  (num_nodes = 1 /\ arrival_prob >= 100) =>
    /\ stats.collisions = 0 /\ stats.empty = 0
    /\ \A i \in 1..Len(stats.delays) : stats.delays[i] = 1
    /\ Len(stats.delays) = stats.successes
    /\ pc \in {"arrivals", "summary", "done"} =>
         nodes[0] = <<>> /\ stats.successes = SlotsProcessed
    /\ pc = "tick" => nodes[0] = <<>> /\ stats.successes = slot
    /\ pc = "summary" /\ num_slots >= 1 => stats.successes = num_slots
    /\ pc = "done" /\ num_slots >= 1 =>
         /\ summary.successes = num_slots
         /\ summary.collisions = 0
         /\ summary.empty_slots = 0
         /\ summary.avg_delay_slots = <<num_slots, num_slots>>

\* the run of five slots
C9_Witness ==
  /\ num_nodes = 1 /\ arrival_prob = 100 /\ num_slots = 5
  /\ pc = "done"
  /\ summary.successes = 5
  /\ summary.avg_delay_slots = <<5, 5>>

\* the configurations C10 calls invalid (the model has no propagation delay)
InvalidConfiguration ==
  num_nodes <= 0 \/ num_slots <= 0 \/ arrival_prob < 0 \/ arrival_prob >= 100

\* C10: an invalid configuration is rejected before any slot is processed: no
\* slot is simulated, no counter changes and no summary is produced.
C10_InvalidRejected ==
  InvalidConfiguration =>
    /\ pc \notin {"arrivals", "resolve", "tick", "done"}
    /\ stats.successes = 0 /\ stats.collisions = 0 /\ stats.empty = 0
    /\ summary = NoSummary

\* C11: a run of at least one slot always completes with a summary;
\* collision_rate is collisions / (slots - empty_slots), and 0 when every
\* slot was empty; avg_delay is the mean of the recorded delays, and the
\* not-a-number value, not an error, when there was no success.
C11_SummaryTotal ==
  num_slots >= 1 =>
    /\ pc # "ZeroDivisionError"
    /\ pc = "done" =>
         /\ summary.produced
         /\ summary.collision_rate_given_activity =
              IF num_slots = stats.empty
              THEN <<0, 1>>
              ELSE <<stats.collisions, num_slots - stats.empty>>
         /\ IF stats.successes = 0
            THEN summary.avg_delay_slots = <<"nan">>
            ELSE summary.avg_delay_slots = <<SumSeq(stats.delays), stats.successes>>

\* a completed run of only empty slots: rate 0 and no mean delay
C11_Witness ==
  /\ pc = "done"
  /\ num_slots >= 2
  /\ stats.empty = num_slots
  /\ summary.collision_rate_given_activity = <<0, 1>>
  /\ summary.avg_delay_slots = <<"nan">>

\* Policy B of the collision resolver: transmissions with propagation offsets
\* p and q (in tenths of a slot) occupy [slot + p, slot + p + 1) and
\* [slot + q, slot + q + 1); they overlap iff start1 < end2 and start2 < end1
IntervalsOverlap(p, q) == p < q + 10 /\ q < p + 10

\* C13: two transmitters ready in the same slot whose propagation offsets are
\* 0.0 and 1.5 occupy non-overlapping intervals, so both succeed in that slot
\* and no collision is recorded.
C13_NonOverlappingBothSucceed ==
  [][pc = "resolve" /\ Cardinality(ReadyNodes) = 2 /\ ~IntervalsOverlap(0, 15) =>
       /\ stats'.successes = stats.successes + 2
       /\ stats'.collisions = stats.collisions
       /\ \A n \in ReadyNodes : nodes'[n] = Tail(nodes[n])]_vars

\* C14: the header parsed from a datagram gives back the five values it was
\* built from: the sender id, which occupies exactly the first 4 bytes, the
\* chunk index, the total, the file name and the payload, which is every
\* byte after the file name.
C14_WireRoundTrip ==
  frame.stage = "parsed" =>
    /\ Len(SenderIdBytes(frame.impl, frame.sender_id)) = 4
    /\ Len(frame.datagram) = 14 + Len(Utf8Encode(frame.filename)) + Len(frame.payload)
    /\ frame.header.ok
    /\ Utf8Encode(frame.header.sender_id) = SenderIdBytes(frame.impl, frame.sender_id)
    /\ frame.header.chunk_no = Wide(frame.chunk_no)
    /\ frame.header.total_chunks = Wide(frame.total)
    /\ frame.header.filename = frame.filename
    /\ frame.header.payload = frame.payload

\* C15: the transmitters of a slot are exactly the nodes whose head packet
\* has backoff 0 after the arrivals: no other node is touched by the slot's
\* resolution, no ready node is skipped (each succeeds or collides), and when
\* nobody is ready no node changes.
C15_TransmittersAreReadyNodes ==
  [][pc = "resolve" =>
       /\ transmitters' = ReadyNodes
       /\ \A n \in DOMAIN nodes :
            IF ReadyNode(n)
            THEN \/ nodes'[n] = Tail(nodes[n])
                 \/ /\ Len(nodes'[n]) = Len(nodes[n])
                    /\ nodes'[n][1].attempts = nodes[n][1].attempts + 1
            ELSE nodes'[n] = nodes[n]]_vars

\* a slot in which one node transmitted while another kept backing off
C15_Witness ==
  /\ pc = "tick"
  /\ Cardinality(transmitters) = 1
  /\ \E n \in DOMAIN nodes \ transmitters :
       /\ Len(nodes[n]) > 0
       /\ nodes[n][1].backoff > 0
       /\ nodes[n][1].attempts >= 1

\* C16: a collision adds exactly 1 to attempts of every colliding packet and
\* sets its backoff, before the tick, to a value in
\* [1, 2^min(attempts, max_backoff_exp) - 1] when max_backoff_exp >= 1 and to
\* 0 when max_backoff_exp = 0; the nodes that did not collide keep their
\* attempts and backoff.
C16_BackoffController ==
  [][pc = "resolve" /\ Cardinality(ReadyNodes) >= 2 =>
       \A n \in DOMAIN nodes :
         IF ReadyNode(n)
         THEN /\ nodes'[n][1].attempts = nodes[n][1].attempts + 1
              /\ nodes'[n][1].backoff \in
                   (IF max_backoff_exp = 0
                    THEN {0}
                    ELSE 1..(2 ^ Min(nodes'[n][1].attempts, max_backoff_exp) - 1))
         ELSE \A i \in 1..Len(nodes[n]) :
                /\ nodes'[n][i].attempts = nodes[n][i].attempts
                /\ nodes'[n][i].backoff = nodes[n][i].backoff]_vars

\* a second collision drew the largest value of its window while a third
\* node was waiting
C16_Witness ==
  /\ pc = "tick"
  /\ Cardinality(transmitters) >= 2
  /\ \E n \in transmitters : nodes[n][1].attempts = 2 /\ nodes[n][1].backoff = 3
  /\ \E m \in DOMAIN nodes \ transmitters : Len(nodes[m]) > 0 /\ nodes[m][1].backoff > 0

\* C17: a node whose packet collided in slot s and drew backoff b >= 1 is not
\* ready in the slots s+1 .. s+b-1 and is ready, hence transmits, in slot s+b.
C17_RetransmissionTiming ==
  pc = "resolve" =>
    \A n \in DOMAIN nodes :
      (lastCollision[n].collided /\ lastCollision[n].backoff >= 1) =>
        /\ slot > lastCollision[n].slot
        /\ slot <= lastCollision[n].slot + lastCollision[n].backoff
        /\ ReadyNode(n) <=> slot = lastCollision[n].slot + lastCollision[n].backoff

\* a node that drew 2 in slot 2 is ready again in slot 4
C17_Witness ==
  /\ pc = "resolve"
  /\ \E n \in DOMAIN nodes :
       /\ lastCollision[n].collided
       /\ lastCollision[n].backoff = 2
       /\ lastCollision[n].slot = 2
       /\ slot = 4
       /\ ReadyNode(n)

\* the packets held by all nodes together
RECURSIVE HeldPackets(_)
HeldPackets(S) ==
  IF S = {} THEN 0
  ELSE LET n == CHOOSE x \in S : TRUE IN Len(nodes[n]) + HeldPackets(S \ {n})

\* C18: the packets created by the arrival step are the successes plus the
\* packets still held; one delay is recorded per success; at most one packet
\* succeeds per slot.
C18_PacketConservation ==
  /\ Cardinality(arrivalLog) = stats.successes + HeldPackets(DOMAIN nodes)
  /\ Len(stats.delays) = stats.successes
  /\ stats.successes <= (IF pc = "tick" THEN slot ELSE SlotsProcessed)

\* two packets delivered, two still held by one node
C18_Witness ==
  /\ pc = "done"
  /\ stats.successes >= 2
  /\ \E n \in DOMAIN nodes : Len(nodes[n]) >= 2
  /\ Cardinality(arrivalLog) >= 4

\* C19: a node's queue is first-in first-out: packets are held in order of
\* created_slot, every packet behind the head has attempts = 0 and
\* backoff = 0, only the head is removed (so the oldest packet succeeds
\* first), and no step modifies a packet behind the head.
C19_FifoHeadOnly ==
  /\ [](\A n \in DOMAIN nodes : \A i \in 2..Len(nodes[n]) :
          /\ nodes[n][i].attempts = 0
          /\ nodes[n][i].backoff = 0
          /\ nodes[n][i - 1].created_slot < nodes[n][i].created_slot)
  /\ [][\A n \in DOMAIN nodes :
          IF Len(nodes'[n]) < Len(nodes[n])
          THEN /\ nodes'[n] = Tail(nodes[n])
               /\ \A i \in 1..Len(nodes'[n]) :
                    nodes[n][1].created_slot < nodes'[n][i].created_slot
          ELSE \A i \in 2..Len(nodes[n]) : nodes'[n][i] = nodes[n][i]]_vars

\* a head that collided twice and is backing off, with a fresh packet behind it
C19_Witness ==
  \E n \in DOMAIN nodes :
    /\ Len(nodes[n]) >= 2
    /\ nodes[n][1].attempts >= 2
    /\ nodes[n][1].backoff >= 1
    /\ nodes[n][2].attempts = 0

\* the sender id of transfer t as it reads on the wire
WireId(t) == Utf8Decode(SenderIdBytes(transfers[t].impl, transfers[t].sender_id)).text

\* the key and the output path the receiver uses for transfer t
KeyOf(t) == WireId(t) \o <<95>> \o transfers[t].filename

PathOf(t) == <<102, 114, 111, 109, 95>> \o KeyOf(t)

\* the number of chunks of transfer t
ChunksOf(t) == NumChunks(transfers[t].data, transfers[t].chunk_size)

\* the payloads of chunks i .. n-1 of transfer t, one after the other
RECURSIVE PayloadsFrom(_, _)
PayloadsFrom(t, i) ==
  IF i >= ChunksOf(t) THEN <<>>
  ELSE Chunk(transfers[t].data, transfers[t].chunk_size, i) \o PayloadsFrom(t, i + 1)

\* C20: whatever the order and the repetitions in which the datagrams of
\* several transfers arrive, the file of a transfer is written exactly when
\* all its chunk indices 0..total-1 have arrived, it holds the payloads in
\* increasing index order, a transfer being collected holds chunks of its own
\* transfer only, and a transfer whose chunks are complete is not kept in
\* active_transfers.
C20_Reassembly ==
  /\ rstats.collisions = 0
  /\ DOMAIN active_transfers \subseteq {KeyOf(t) : t \in DOMAIN transfers}
  /\ DOMAIN files \subseteq {PathOf(t) : t \in DOMAIN transfers}
  /\ rstats.completed >= Cardinality(DOMAIN files)
  /\ \A t \in DOMAIN transfers :
       /\ PathOf(t) \in DOMAIN files <=> arrived[t] = 0..(ChunksOf(t) - 1)
       /\ PathOf(t) \in DOMAIN files => files[PathOf(t)] = PayloadsFrom(t, 0)
       /\ PathOf(t) \notin DOMAIN files =>
            IF arrived[t] = {}
            THEN KeyOf(t) \notin DOMAIN active_transfers
            ELSE /\ KeyOf(t) \in DOMAIN active_transfers
                 /\ DOMAIN active_transfers[KeyOf(t)].chunks = {Wide(j) : j \in arrived[t]}
       /\ KeyOf(t) \in DOMAIN active_transfers =>
            LET tr == active_transfers[KeyOf(t)] IN
            /\ tr.total = Wide(ChunksOf(t))
            /\ tr.sender = WireId(t)
            /\ tr.filename = transfers[t].filename
            /\ Cardinality(DOMAIN tr.chunks) < ChunksOf(t)
            /\ \A i \in DOMAIN tr.chunks :
                 \E j \in 0..(ChunksOf(t) - 1) :
                   /\ i = Wide(j)
                   /\ tr.chunks[i] = Chunk(transfers[t].data, transfers[t].chunk_size, j)

\* two transfers written, one of them of two chunks; a repeated datagram of
\* its chunk 1 arrived afterwards
C20_Witness ==
  /\ Cardinality(DOMAIN files) >= 2
  /\ rstats.completed >= 2
  /\ \E t \in DOMAIN transfers :
       /\ ChunksOf(t) >= 2
       /\ PathOf(t) \in DOMAIN files
       /\ KeyOf(t) \in DOMAIN active_transfers
       /\ DOMAIN active_transfers[KeyOf(t)].chunks = {Wide(1)}

\* the chunk numbers 0 .. total-1 of a stored total, as they read on the wire
IndicesBelow(total) == {i \in {Wide(j) : j \in 0..MaxReceived} : WideLess(i, total)}

\* C21: whatever datagrams the receiver is given, chunk numbers at or above
\* the total and totals that differ from the stored one included, every
\* transfer it reconstructs holds exactly the chunk numbers 0..total-1 of its
\* stored total, and the file written for it has no missing chunk.
C21_ReconstructsComplete ==
  \A r \in reconstructed : r.chunks = IndicesBelow(r.total)

\* the two ways a reconstruction goes wrong: a first datagram with chunk
\* number 1 of total 1 gives an empty file; chunk 0 stored under total 2 and
\* then repeated with total 1 gives a file without chunk 1
C21_IncompleteFile ==
  /\ [key |-> KeyOf(1), total |-> Wide(1), chunks |-> {Wide(1)}] \in reconstructed
  /\ [key |-> KeyOf(1), total |-> Wide(2), chunks |-> {Wide(0)}] \in reconstructed
  /\ files[PathOf(1)] \in {<<>>, <<1>>}
  /\ rstats.completed = 2
  /\ rstats.collisions = 0

====
